---- MODULE Spec2Model ----
(***************************************************************************)
(* Model of the rust_bank ledger (bank_core) and of the request handler     *)
(* that serves it (bank_server).                                            *)
(*                                                                          *)
(* A Bank method is modelled as a step function over a call frame: every    *)
(* step is one call into a storage object together with the local           *)
(* computation around it.  Call runs a frame to completion (a method called *)
(* on an exclusively owned Bank); the handler threads of SpecConc take the  *)
(* same steps one at a time.                                                *)
(*                                                                          *)
(* Amounts are drawn from 0..MaxVal and the log is capped at MaxLog, far    *)
(* below the range of usize, so the arithmetic below never leaves the       *)
(* machine word; SpecWord runs the same methods on a word of WordBits bits, *)
(* where it does.                                                           *)
(***************************************************************************)
EXTENDS Integers, Sequences, FiniteSets, TLC

\* ------------------------------------------------------------------ bounds
MaxVal == 2
MaxFee == 1
MaxLog == 3
NThreads == 2
WordBits == 2

\* names a request can carry; "fee_acc" is the reserved name of storage.rs:28
FeeName == "fee_acc"
UserNames == {"a", "b"}
Names == UserNames \cup {FeeName}
Values == 0..MaxVal

VARIABLES
    acc_storage,  \* Bank.acc_storage : MemAccountStorage {storage, fee_acc_name}
    tr_storage,   \* Bank.tr_storage  : MemTransactionStorage {storage, last_tr_id}
    tr_fee,       \* Bank.tr_fee
    added,        \* history: total of the successful inc_acc_balance values
    withdrawn,    \* history: total of the successful decr_acc_balance values
    th,           \* handler threads, one per request: position and call frame
    lock,         \* Handler.bank : RwLock, its writer (0: none) and its readers
    serial,       \* history: the Bank as the calls leave it when each runs
                  \* alone, in the order the lock was acquired
    script,       \* a client running a fixed sequence of calls: its arguments,
                  \* its position and the results it has received
    sock          \* a client connection: the request last taken from it and
                  \* the response last written to it

vars == <<acc_storage, tr_storage, tr_fee, added, withdrawn, th, lock, serial,
          script, sock>>

\* ---------------------------------------------------------- storage types
\* TransactionAction (bank/storage.rs): a tagged value with a uniform shape
Registration == [type |-> "Registration", to |-> "", value |-> 0, fee |-> 0]
Add(v) == [type |-> "Add", to |-> "", value |-> v, fee |-> 0]
Withdraw(v) == [type |-> "Withdraw", to |-> "", value |-> v, fee |-> 0]
Transfer(to, v, fee) == [type |-> "Transfer", to |-> to, value |-> v, fee |-> fee]

\* AccountTransfer::new(name, None)
AccountTransfer_new(name) == [name |-> name, balance |-> 0, trs |-> <<>>]

\* Account::default(): the value of an unset local
NoAcc == [name |-> "", balance |-> 0, trs |-> <<>>]

EmptyMap == [n \in {} |-> NoAcc]

\* MemAccountStorage::create_account
MemAccountStorage_create_account(s, raw) ==
    IF raw.name \in DOMAIN s.storage
    THEN [s |-> s, err |-> "AccountAlreadyExists", val |-> NoAcc]
    ELSE [s |-> [s EXCEPT !.storage =
                    [n \in DOMAIN s.storage \cup {raw.name} |->
                        IF n = raw.name THEN raw ELSE s.storage[n]]],
          err |-> "ok", val |-> raw]

\* MemAccountStorage::get_account
get_account(s, name) ==
    IF name \in DOMAIN s.storage
    THEN [err |-> "ok", val |-> s.storage[name]]
    ELSE [err |-> "AccountNotExists", val |-> NoAcc]

\* update_account inserting the record when the name is absent
update_account_or_insert(s, raw) ==
    [s |-> [s EXCEPT !.storage =
                [n \in DOMAIN s.storage \cup {raw.name} |->
                    IF n = raw.name THEN raw ELSE s.storage[n]]],
     err |-> "ok", val |-> raw]

\* MemAccountStorage::update_account
update_account(s, raw) ==
    IF raw.name \in DOMAIN s.storage
    THEN [s |-> [s EXCEPT !.storage[raw.name] = raw], err |-> "ok", val |-> raw]
    ELSE [s |-> s, err |-> "AccountNotExists", val |-> NoAcc]

\* MemAccountStorage::fee_account
fee_account(s) == get_account(s, s.fee_acc_name)

\* MemAccountStorage::new
MemAccountStorage_new ==
    MemAccountStorage_create_account(
        [storage |-> EmptyMap, fee_acc_name |-> FeeName],
        [name |-> FeeName, balance |-> 0, trs |-> <<>>]).s

\* #[derive(Default)] of MemAccountStorage
MemAccountStorage_default == [storage |-> EmptyMap, fee_acc_name |-> ""]

\* MemTransactionStorage::new
MemTransactionStorage_new == [storage |-> <<>>, last_tr_id |-> 0]

\* create_transaction giving the record the id held before the increment
create_transaction_stale_id(t, account_name, action) ==
    LET id == t.last_tr_id
        item == [id |-> id, action |-> action, account_name |-> account_name]
    IN [s |-> [storage |-> Append(t.storage, item), last_tr_id |-> id + 1],
        val |-> item]

\* create_transaction putting the new record in front of the older ones
create_transaction_in_front(t, account_name, action) ==
    LET id == t.last_tr_id + 1
        item == [id |-> id, action |-> action, account_name |-> account_name]
    IN [s |-> [storage |-> <<item>> \o t.storage, last_tr_id |-> id],
        val |-> item]

\* MemTransactionStorage::create_transaction
create_transaction(t, account_name, action) ==
    LET id == t.last_tr_id + 1
        item == [id |-> id, action |-> action, account_name |-> account_name]
    IN [s |-> [storage |-> Append(t.storage, item), last_tr_id |-> id],
        val |-> item]

NoTr == [id |-> 0, action |-> Registration, account_name |-> ""]

\* MemTransactionStorage::transaction_by_id, for id >= 1
\* (the failure is reported as AccountNotExists, storage.rs:139)
transaction_by_id(t, id) ==
    IF id - 1 \in 0..(Len(t.storage) - 1)
    THEN [err |-> "ok", val |-> t.storage[id]]
    ELSE [err |-> "AccountNotExists", val |-> NoTr]

\* the two ways `cargo build` compiles usize arithmetic
Builds == {"debug", "release"}

\* MemTransactionStorage::transaction_by_id for every id: `id - 1` underflows
\* usize for id = 0; a debug build panics there, a release build wraps to
\* usize::MAX, which no Vec index reaches
transaction_by_id_build(build, t, id) ==
    IF id = 0
    THEN IF build = "debug"
         THEN [err |-> "panic", val |-> NoTr]
         ELSE [err |-> "AccountNotExists", val |-> NoTr]
    ELSE transaction_by_id(t, id)

\* MemTransactionStorage::transactions
transactions(t) == t.storage

\* ------------------------------------------------------------------- Bank
\* Bank::new
Bank_new(a, t, fee) == [acc_storage |-> a, tr_storage |-> t, tr_fee |-> fee]

\* a call frame: method, arguments, position, locals and result
Frame(op, a, b, v) ==
    [op |-> op, a |-> a, b |-> b, v |-> v, pc |-> "start",
     tr |-> 0, acc |-> NoAcc,
     err |-> "", id |-> 0, out |-> NoAcc, list |-> <<>>]

NoFrame == [Frame("", "", "", 0) EXCEPT !.pc = "done"]

Fail(f, err) == [f EXCEPT !.pc = "done", !.err = err]
OkId(f, id) == [f EXCEPT !.pc = "done", !.err = "ok", !.id = id]
OkAcc(f, acc) == [f EXCEPT !.pc = "done", !.err = "ok", !.out = acc]
OkList(f, l) == [f EXCEPT !.pc = "done", !.err = "ok", !.list = l]

\* Bank::account
Bank_account(b, name) == get_account(b.acc_storage, name)

\* create_account storing the account without the id of its Registration
Bank_create_account_no_push(b, f) ==
    CASE f.pc = "start" ->
        LET r == create_transaction(b.tr_storage, f.a, Registration)
        IN [bank |-> [b EXCEPT !.tr_storage = r.s],
            f |-> [f EXCEPT !.pc = "create", !.tr = r.val.id]]
    [] f.pc = "create" ->
        LET acc == AccountTransfer_new(f.a)
            r == MemAccountStorage_create_account(b.acc_storage, acc)
        IN IF r.err # "ok"
           THEN [bank |-> b, f |-> Fail(f, r.err)]
           ELSE [bank |-> [b EXCEPT !.acc_storage = r.s],
                 f |-> OkAcc(f, [name |-> f.a, balance |-> 0, trs |-> <<f.tr>>])]

\* Bank::create_account
Bank_create_account(b, f) ==
    CASE f.pc = "start" ->
        LET r == create_transaction(b.tr_storage, f.a, Registration)
        IN [bank |-> [b EXCEPT !.tr_storage = r.s],
            f |-> [f EXCEPT !.pc = "create", !.tr = r.val.id]]
    [] f.pc = "create" ->
        LET acc == [AccountTransfer_new(f.a) EXCEPT !.trs = Append(@, f.tr)]
            r == MemAccountStorage_create_account(b.acc_storage, acc)
        IN IF r.err # "ok"
           THEN [bank |-> b, f |-> Fail(f, r.err)]
           ELSE [bank |-> [b EXCEPT !.acc_storage = r.s],
                 f |-> OkAcc(f, [name |-> f.a, balance |-> 0, trs |-> <<f.tr>>])]

\* inc_acc_balance storing the value as the balance
inc_acc_balance_set_balance(b, f) ==
    CASE f.pc = "start" ->
        IF f.v = 0
        THEN [bank |-> b, f |-> Fail(f, "EmptyTransaction")]
        ELSE LET r == create_transaction(b.tr_storage, f.a, Add(f.v))
             IN [bank |-> [b EXCEPT !.tr_storage = r.s],
                 f |-> [f EXCEPT !.pc = "get", !.tr = r.val.id]]
    [] f.pc = "get" ->
        LET r == Bank_account(b, f.a)
        IN IF r.err # "ok"
           THEN [bank |-> b, f |-> Fail(f, r.err)]
           ELSE [bank |-> b,
                 f |-> [f EXCEPT !.pc = "update",
                                 !.acc = [r.val EXCEPT !.balance = f.v,
                                                       !.trs = Append(@, f.tr)]]]
    [] f.pc = "update" ->
        LET r == update_account(b.acc_storage, f.acc)
        IN IF r.err # "ok"
           THEN [bank |-> b, f |-> Fail(f, r.err)]
           ELSE [bank |-> [b EXCEPT !.acc_storage = r.s], f |-> OkId(f, f.tr)]

\* Bank::inc_acc_balance
inc_acc_balance(b, f) ==
    CASE f.pc = "start" ->
        IF f.v = 0
        THEN [bank |-> b, f |-> Fail(f, "EmptyTransaction")]
        ELSE LET r == create_transaction(b.tr_storage, f.a, Add(f.v))
             IN [bank |-> [b EXCEPT !.tr_storage = r.s],
                 f |-> [f EXCEPT !.pc = "get", !.tr = r.val.id]]
    [] f.pc = "get" ->
        LET r == Bank_account(b, f.a)
        IN IF r.err # "ok"
           THEN [bank |-> b, f |-> Fail(f, r.err)]
           ELSE [bank |-> b,
                 f |-> [f EXCEPT !.pc = "update",
                                 !.acc = [r.val EXCEPT !.balance = @ + f.v,
                                                       !.trs = Append(@, f.tr)]]]
    [] f.pc = "update" ->
        LET r == update_account(b.acc_storage, f.acc)
        IN IF r.err # "ok"
           THEN [bank |-> b, f |-> Fail(f, r.err)]
           ELSE [bank |-> [b EXCEPT !.acc_storage = r.s], f |-> OkId(f, f.tr)]

\* decr_acc_balance_start refusing a withdrawal of the whole balance
decr_acc_balance_start_geq(b, f) ==
    LET r == Bank_account(b, f.a)
    IN IF r.err # "ok" THEN [bank |-> b, f |-> Fail(f, r.err)]
       ELSE IF f.v >= r.val.balance
            THEN [bank |-> b, f |-> Fail(f, "NotEnoughMoney")]
       ELSE IF f.v = 0
            THEN [bank |-> b, f |-> Fail(f, "EmptyTransaction")]
       ELSE [bank |-> b, f |-> [f EXCEPT !.pc = "tr", !.acc = r.val]]

\* Bank::decr_acc_balance, bank.rs:166-171: the account is read and the
\* request is checked
decr_acc_balance_start(b, f) ==
    LET r == Bank_account(b, f.a)
    IN IF r.err # "ok" THEN [bank |-> b, f |-> Fail(f, r.err)]
       ELSE IF f.v > r.val.balance
            THEN [bank |-> b, f |-> Fail(f, "NotEnoughMoney")]
       ELSE IF f.v = 0
            THEN [bank |-> b, f |-> Fail(f, "EmptyTransaction")]
       ELSE [bank |-> b, f |-> [f EXCEPT !.pc = "tr", !.acc = r.val]]

\* Bank::decr_acc_balance
decr_acc_balance(b, f) ==
    CASE f.pc = "start" -> decr_acc_balance_start(b, f)
    [] f.pc = "tr" ->
        LET r == create_transaction(b.tr_storage, f.a, Withdraw(f.v))
        IN [bank |-> [b EXCEPT !.tr_storage = r.s],
            f |-> [f EXCEPT !.pc = "update", !.tr = r.val.id,
                            !.acc = [f.acc EXCEPT !.balance = @ - f.v,
                                                  !.trs = Append(@, r.val.id)]]]
    [] f.pc = "update" ->
        LET r == update_account(b.acc_storage, f.acc)
        IN IF r.err # "ok"
           THEN [bank |-> b, f |-> Fail(f, r.err)]
           ELSE [bank |-> [b EXCEPT !.acc_storage = r.s], f |-> OkId(f, f.tr)]

\* make_transaction_start with the fee left out of the sufficiency check
make_transaction_start_no_fee(b, f) ==
    LET r == Bank_account(b, f.a)
    IN IF r.err # "ok" THEN [bank |-> b, f |-> Fail(f, r.err)]
       ELSE IF f.v = 0
            THEN [bank |-> b, f |-> Fail(f, "EmptyTransaction")]
       ELSE IF f.v > r.val.balance
            THEN [bank |-> b, f |-> Fail(f, "NotEnoughMoney")]
       ELSE [bank |-> b, f |-> [f EXCEPT !.pc = "tr", !.acc = r.val]]

\* make_transaction_start checking the funds before the value
make_transaction_start_money_first(b, f) ==
    LET r == Bank_account(b, f.a)
    IN IF r.err # "ok" THEN [bank |-> b, f |-> Fail(f, r.err)]
       ELSE IF f.v + b.tr_fee > r.val.balance
            THEN [bank |-> b, f |-> Fail(f, "NotEnoughMoney")]
       ELSE IF f.v = 0
            THEN [bank |-> b, f |-> Fail(f, "EmptyTransaction")]
       ELSE [bank |-> b, f |-> [f EXCEPT !.pc = "tr", !.acc = r.val]]

\* Bank::make_transaction, bank.rs:191-196: the sender is read and the
\* request is checked
make_transaction_start(b, f) ==
    LET r == Bank_account(b, f.a)
    IN IF r.err # "ok" THEN [bank |-> b, f |-> Fail(f, r.err)]
       ELSE IF f.v = 0
            THEN [bank |-> b, f |-> Fail(f, "EmptyTransaction")]
       ELSE IF f.v + b.tr_fee > r.val.balance
            THEN [bank |-> b, f |-> Fail(f, "NotEnoughMoney")]
       ELSE [bank |-> b, f |-> [f EXCEPT !.pc = "tr", !.acc = r.val]]

\* make_transaction_tr debiting the value but not the fee
make_transaction_tr_debit_value(b, f) ==
    LET r == create_transaction(b.tr_storage, f.a, Transfer(f.b, f.v, b.tr_fee))
    IN [bank |-> [b EXCEPT !.tr_storage = r.s],
        f |-> [f EXCEPT !.pc = "upd_from", !.tr = r.val.id,
                        !.acc = [f.acc EXCEPT !.balance = @ - f.v,
                                              !.trs = Append(@, r.val.id)]]]

\* Bank::make_transaction, bank.rs:198-209: the Transfer record is appended
\* and the local copy of the sender is debited
make_transaction_tr(b, f) ==
    LET r == create_transaction(b.tr_storage, f.a, Transfer(f.b, f.v, b.tr_fee))
    IN [bank |-> [b EXCEPT !.tr_storage = r.s],
        f |-> [f EXCEPT !.pc = "upd_from", !.tr = r.val.id,
                        !.acc = [f.acc EXCEPT !.balance = @ - (f.v + b.tr_fee),
                                              !.trs = Append(@, r.val.id)]]]

\* Bank::make_transaction, bank.rs:210-211: the sender is stored
make_transaction_upd_from(b, f) ==
    LET r == update_account(b.acc_storage, f.acc)
    IN IF r.err # "ok"
       THEN [bank |-> b, f |-> Fail(f, r.err)]
       ELSE [bank |-> [b EXCEPT !.acc_storage = r.s],
             f |-> [f EXCEPT !.pc = "get_to"]]

\* Bank::make_transaction, bank.rs:214-216: the receiver is read and its
\* local copy credited
make_transaction_get_to(b, f) ==
    LET r == Bank_account(b, f.b)
    IN IF r.err # "ok"
       THEN [bank |-> b, f |-> Fail(f, r.err)]
       ELSE [bank |-> b,
             f |-> [f EXCEPT !.pc = "upd_to",
                             !.acc = [r.val EXCEPT !.balance = @ + f.v,
                                                   !.trs = Append(@, f.tr)]]]

\* make_transaction_upd_to going on to the fee account whatever the fee
make_transaction_upd_to_always_fee(b, f) ==
    LET r == update_account(b.acc_storage, f.acc)
    IN IF r.err # "ok"
       THEN [bank |-> b, f |-> Fail(f, r.err)]
       ELSE [bank |-> [b EXCEPT !.acc_storage = r.s],
             f |-> [f EXCEPT !.pc = "fee_get"]]

\* Bank::make_transaction, bank.rs:217-221: the receiver is stored
make_transaction_upd_to(b, f) ==
    LET r == update_account(b.acc_storage, f.acc)
    IN IF r.err # "ok"
       THEN [bank |-> b, f |-> Fail(f, r.err)]
       ELSE IF b.tr_fee > 0
            THEN [bank |-> [b EXCEPT !.acc_storage = r.s],
                  f |-> [f EXCEPT !.pc = "fee_get"]]
            ELSE [bank |-> [b EXCEPT !.acc_storage = r.s], f |-> OkId(f, f.tr)]

\* Bank::make_transaction, bank.rs:223-224: the fee account is read and its
\* local copy credited
make_transaction_fee_get(b, f) ==
    LET r == fee_account(b.acc_storage)
    IN IF r.err # "ok"
       THEN [bank |-> b, f |-> Fail(f, r.err)]
       ELSE [bank |-> b,
             f |-> [f EXCEPT !.pc = "fee_tr",
                             !.acc = [r.val EXCEPT !.balance = @ + b.tr_fee]]]

\* make_transaction_fee_tr attributing the Add(fee) record to the sender
make_transaction_fee_tr_on_sender(b, f) ==
    LET n == fee_account(b.acc_storage)
    IN IF n.err # "ok"
       THEN [bank |-> b, f |-> Fail(f, n.err)]
       ELSE LET r == create_transaction(b.tr_storage, f.a, Add(b.tr_fee))
            IN [bank |-> [b EXCEPT !.tr_storage = r.s],
                f |-> [f EXCEPT !.pc = "fee_upd",
                                !.acc = [f.acc EXCEPT !.trs = Append(@, r.val.id)]]]

\* Bank::make_transaction, bank.rs:225-229: the Add(fee) record is appended
\* (the inner tr shadows the Transfer's only inside the block; f.tr keeps it)
make_transaction_fee_tr(b, f) ==
    LET n == fee_account(b.acc_storage)
    IN IF n.err # "ok"
       THEN [bank |-> b, f |-> Fail(f, n.err)]
       ELSE LET r == create_transaction(b.tr_storage, n.val.name, Add(b.tr_fee))
            IN [bank |-> [b EXCEPT !.tr_storage = r.s],
                f |-> [f EXCEPT !.pc = "fee_upd",
                                !.acc = [f.acc EXCEPT !.trs = Append(@, r.val.id)]]]

\* make_transaction_fee_upd returning the id of the record appended last
make_transaction_fee_upd_inner_id(b, f) ==
    LET r == update_account(b.acc_storage, f.acc)
    IN IF r.err # "ok"
       THEN [bank |-> b, f |-> Fail(f, r.err)]
       ELSE [bank |-> [b EXCEPT !.acc_storage = r.s],
             f |-> OkId(f, f.acc.trs[Len(f.acc.trs)])]

\* Bank::make_transaction, bank.rs:230-233: the fee account is stored and the
\* id of the Transfer record is returned
make_transaction_fee_upd(b, f) ==
    LET r == update_account(b.acc_storage, f.acc)
    IN IF r.err # "ok"
       THEN [bank |-> b, f |-> Fail(f, r.err)]
       ELSE [bank |-> [b EXCEPT !.acc_storage = r.s], f |-> OkId(f, f.tr)]

\* Bank::make_transaction
make_transaction(b, f) ==
    CASE f.pc = "start" -> make_transaction_start(b, f)
    [] f.pc = "tr" -> make_transaction_tr(b, f)
    [] f.pc = "upd_from" -> make_transaction_upd_from(b, f)
    [] f.pc = "get_to" -> make_transaction_get_to(b, f)
    [] f.pc = "upd_to" -> make_transaction_upd_to(b, f)
    [] f.pc = "fee_get" -> make_transaction_fee_get(b, f)
    [] f.pc = "fee_tr" -> make_transaction_fee_tr(b, f)
    [] f.pc = "fee_upd" -> make_transaction_fee_upd(b, f)

\* Bank::account_balance
account_balance(b, f) ==
    LET r == Bank_account(b, f.a)
    IN IF r.err # "ok"
       THEN [bank |-> b, f |-> Fail(f, r.err)]
       ELSE [bank |-> b, f |-> [OkAcc(f, r.val) EXCEPT !.id = r.val.balance]]

\* ids of acc.trs that transaction_by_id resolves, in order (the filter/map)
RECURSIVE ResolveIds(_, _)
ResolveIds(t, ids) ==
    IF ids = <<>> THEN <<>>
    ELSE LET r == transaction_by_id(t, Head(ids))
         IN (IF r.err = "ok" THEN <<r.val>> ELSE <<>>) \o ResolveIds(t, Tail(ids))

\* Bank::account_transactions
account_transactions(b, f) ==
    LET r == Bank_account(b, f.a)
    IN IF r.err # "ok"
       THEN [bank |-> b, f |-> Fail(f, r.err)]
       ELSE [bank |-> b, f |-> OkList(f, ResolveIds(b.tr_storage, r.val.trs))]

\* Bank::transactions
Bank_transactions(b, f) == [bank |-> b, f |-> OkList(f, transactions(b.tr_storage))]

\* Bank::transaction_by_id
Bank_transaction_by_id(b, f) ==
    LET r == transaction_by_id(b.tr_storage, f.v)
    IN IF r.err # "ok"
       THEN [bank |-> b, f |-> Fail(f, r.err)]
       ELSE [bank |-> b, f |-> OkList(f, <<r.val>>)]

\* one step of the method a frame is in
Step(b, f) ==
    CASE f.op = "create_account" -> Bank_create_account(b, f)
    [] f.op = "inc_acc_balance" -> inc_acc_balance(b, f)
    [] f.op = "decr_acc_balance" -> decr_acc_balance(b, f)
    [] f.op = "make_transaction" -> make_transaction(b, f)
    [] f.op = "account_balance" -> account_balance(b, f)
    [] f.op = "account_transactions" -> account_transactions(b, f)
    [] f.op = "transactions" -> Bank_transactions(b, f)
    [] f.op = "transaction_by_id" -> Bank_transaction_by_id(b, f)

\* a method call from entry to return
RECURSIVE Call(_, _)
Call(b, f) ==
    IF f.pc = "done" THEN [bank |-> b, f |-> f]
    ELSE LET r == Step(b, f) IN Call(r.bank, r.f)

\* ---------------------------------------------------------------- rebuild
\* RestoreList with a Transfer pushed under its account_name only
RECURSIVE RestoreList_sender_only(_, _)
RestoreList_sender_only(trs, name) ==
    IF trs = <<>> THEN <<>>
    ELSE (IF Head(trs).account_name = name THEN <<Head(trs)>> ELSE <<>>)
         \o RestoreList_sender_only(Tail(trs), name)

\* the entry of restore_map for one account: a Transfer is pushed under its
\* `to` and then under its account_name
RECURSIVE RestoreList(_, _)
RestoreList(trs, name) ==
    IF trs = <<>> THEN <<>>
    ELSE LET tr == Head(trs)
         IN (IF tr.action.type = "Transfer" /\ tr.action.to = name
             THEN <<tr>> ELSE <<>>)
            \o (IF tr.account_name = name THEN <<tr>> ELSE <<>>)
            \o RestoreList(Tail(trs), name)

\* the keys of restore_map
RestoreKeys(trs) ==
    {trs[i].account_name : i \in DOMAIN trs}
    \cup {trs[i].action.to : i \in {j \in DOMAIN trs : trs[j].action.type = "Transfer"}}

\* the fold of restore_account_from_transactions
RECURSIVE FoldBalance(_, _, _)
FoldBalance(name, trs, bal) ==
    IF trs = <<>> THEN bal
    ELSE LET a == Head(trs).action
             nb == CASE a.type = "Registration" -> bal
                   [] a.type = "Add" -> bal + a.value
                   [] a.type = "Withdraw" -> bal - a.value
                   [] a.type = "Transfer" ->
                        IF a.to # name THEN bal - (a.value + a.fee)
                        ELSE bal + a.value
         IN FoldBalance(name, Tail(trs), nb)

\* restore_account_from_transactions folding on top of the stored balance
restore_account_from_transactions_on_stored(b, account_name, trs) ==
    LET old == get_account(b.acc_storage, account_name).val.balance
        acc == [name |-> account_name,
                balance |-> FoldBalance(account_name, trs, old),
                trs |-> [i \in DOMAIN trs |-> trs[i].id]]
        u == update_account(b.acc_storage, acc)
    IN IF u.err = "ok" THEN [b EXCEPT !.acc_storage = u.s]
       ELSE [b EXCEPT !.acc_storage =
                MemAccountStorage_create_account(b.acc_storage, acc).s]

\* Bank::restore_account_from_transactions
restore_account_from_transactions(b, account_name, trs) ==
    LET acc == [name |-> account_name,
                balance |-> FoldBalance(account_name, trs, 0),
                trs |-> [i \in DOMAIN trs |-> trs[i].id]]
        u == update_account(b.acc_storage, acc)
    IN IF u.err = "ok" THEN [b EXCEPT !.acc_storage = u.s]
       ELSE [b EXCEPT !.acc_storage =
                MemAccountStorage_create_account(b.acc_storage, acc).s]

RECURSIVE ReappendAll(_, _)
ReappendAll(t, trs) ==
    IF trs = <<>> THEN t
    ELSE ReappendAll(create_transaction(t, Head(trs).account_name,
                                        Head(trs).action).s, Tail(trs))

RECURSIVE RestoreAccounts(_, _, _)
RestoreAccounts(b, keys, trs) ==
    IF keys = {} THEN b
    ELSE LET k == CHOOSE x \in keys : TRUE
         IN RestoreAccounts(
                restore_account_from_transactions(b, k, RestoreList(trs, k)),
                keys \ {k}, trs)

\* Bank::restore_bank_from_transactions
restore_bank_from_transactions(trs, fee) ==
    LET b0 == Bank_new(MemAccountStorage_default, MemTransactionStorage_new, fee)
        b1 == [b0 EXCEPT !.tr_storage = ReappendAll(b0.tr_storage, trs)]
    IN RestoreAccounts(b1, RestoreKeys(trs), trs)

\* ------------------------------------------------------- the ledger, alone
BankVal == Bank_new(acc_storage, tr_storage, tr_fee)

SumBalances(s) ==
    LET RECURSIVE Sum(_)
        Sum(D) == IF D = {} THEN 0
                  ELSE LET n == CHOOSE x \in D : TRUE
                       IN s.storage[n].balance + Sum(D \ {n})
    IN Sum(DOMAIN s.storage)

Threads == 1..NThreads

IdleThread == [hpc |-> "idle", f |-> NoFrame, sf |-> NoFrame]

\* a request and a response (bank_protocol types.rs), and a connection on
\* which nothing was sent
NoRequest == [id |-> 0, valid |-> TRUE, f |-> NoFrame]
NoResponse == [id |-> 0, code |-> "", error |-> ""]
NoSock == [req |-> NoRequest, resp |-> NoResponse]

\* no scripted client
NoScript == [step |-> 0, A |-> "", B |-> "", inc |-> 0, val |-> 0,
             ids |-> <<>>, balance |-> 0, trs |-> <<>>]

Init ==
    /\ acc_storage = MemAccountStorage_new
    /\ tr_storage = MemTransactionStorage_new
    /\ tr_fee \in 0..MaxFee
    /\ added = 0
    /\ withdrawn = 0
    /\ th = [t \in Threads |-> IdleThread]
    /\ lock = [writer |-> 0, readers |-> {}]
    /\ serial = Bank_new(MemAccountStorage_new, MemTransactionStorage_new, tr_fee)
    /\ script = NoScript
    /\ sock = NoSock

\* a call on the Bank, run from entry to return
Do(f0) ==
    LET r == Call(BankVal, f0)
    IN /\ acc_storage' = r.bank.acc_storage
       /\ tr_storage' = r.bank.tr_storage
       /\ tr_fee' = r.bank.tr_fee
       /\ added' = IF f0.op = "inc_acc_balance" /\ r.f.err = "ok"
                   THEN added + f0.v ELSE added
       /\ withdrawn' = IF f0.op = "decr_acc_balance" /\ r.f.err = "ok"
                       THEN withdrawn + f0.v ELSE withdrawn
       /\ UNCHANGED <<th, lock, serial, script, sock>>

Room == Len(tr_storage.storage) < MaxLog

CreateAccount == \E n \in Names : Room /\ Do(Frame("create_account", n, "", 0))

IncrementBalance ==
    \E n \in Names, v \in Values : Room /\ Do(Frame("inc_acc_balance", n, "", v))

DecrementBalance ==
    \E n \in Names, v \in Values : Room /\ Do(Frame("decr_acc_balance", n, "", v))

MakeTransaction ==
    \E n \in Names, m \in Names, v \in Values :
        Room /\ Do(Frame("make_transaction", n, m, v))

Next ==
    \/ CreateAccount
    \/ IncrementBalance
    \/ DecrementBalance
    \/ MakeTransaction

Spec == Init /\ [][Next]_vars

\* ------------------------------------------------- properties of the ledger
Log == tr_storage.storage
Accounts == acc_storage.storage

\* the result and the ledger a call made in the current state returns
After(f0) == Call(BankVal, f0)

CreateFrames == {Frame("create_account", n, "", 0) : n \in Names}
IncFrames == {Frame("inc_acc_balance", n, "", v) : n \in Names, v \in Values}
DecrFrames == {Frame("decr_acc_balance", n, "", v) : n \in Names, v \in Values}
TransferFrames ==
    {Frame("make_transaction", n, m, v) : n \in Names, m \in Names, v \in Values}

\* C1: in every state reached by any sequence of create_account,
\* inc_acc_balance, decr_acc_balance and make_transaction calls, successful or
\* failed, every stored account's balance is >= 0.
C1_NoNegativeBalance ==
    \A n \in DOMAIN Accounts : Accounts[n].balance >= 0

\* a withdrawal or a transfer has emptied its account, and a further debit of
\* that account is refused
C1_Witness ==
    \E i \in DOMAIN Log :
        /\ Log[i].action.type \in {"Withdraw", "Transfer"}
        /\ Log[i].account_name \in DOMAIN Accounts
        /\ Accounts[Log[i].account_name].balance = 0
        /\ After(Frame("decr_acc_balance", Log[i].account_name, "", 1)).f.err
                = "NotEnoughMoney"

\* C2: every successful make_transaction(from, to, value) leaves the sum of
\* the balances of all accounts, the fee account included, unchanged; also
\* when from = to and when from or to is the fee account.
C2_TransferConservesSum ==
    \A f0 \in TransferFrames :
        After(f0).f.err = "ok" =>
            SumBalances(After(f0).bank.acc_storage) = SumBalances(acc_storage)

\* with a fee configured, a transfer to oneself, one out of the fee account
\* and one into the fee account all succeed from this state
C2_Witness ==
    /\ tr_fee > 0
    /\ \E f0 \in TransferFrames :
            f0.a = f0.b /\ f0.a # FeeName /\ After(f0).f.err = "ok"
    /\ \E f0 \in TransferFrames :
            f0.a = FeeName /\ f0.b # FeeName /\ After(f0).f.err = "ok"
    /\ \E f0 \in TransferFrames :
            f0.b = FeeName /\ f0.a # FeeName /\ After(f0).f.err = "ok"

\* C3: for every reachable ledger L, restore_bank_from_transactions of L's
\* log and fee yields a ledger in which every account of L exists with the
\* same balance and the same set of transaction ids.
C3_RebuildAgrees ==
    LET r == restore_bank_from_transactions(transactions(tr_storage), tr_fee)
        R == r.acc_storage.storage
    IN \A n \in DOMAIN Accounts :
        /\ n \in DOMAIN R
        /\ R[n].balance = Accounts[n].balance
        /\ {R[n].trs[k] : k \in DOMAIN R[n].trs}
                = {Accounts[n].trs[k] : k \in DOMAIN Accounts[n].trs}

\* C4: in every reachable state the log holds exactly the ids 1..n in
\* creation order: the k-th appended record has id k, whatever mix of
\* successful and failed calls produced the log.
C4_LogIdsAreOneToN ==
    /\ \A k \in DOMAIN Log : Log[k].id = k
    /\ tr_storage.last_tr_id = Len(Log)

\* the log holds three records or more, one of them left by a failed call
\* (a record for a name that has no account)
C4_Witness ==
    /\ Len(Log) >= 3
    /\ \E i \in DOMAIN Log : Log[i].account_name \notin DOMAIN Accounts

\* C5: whenever make_transaction returns an error, the log and every
\* account's balance and id list are what they were before the call.
C5_FailedTransferChangesNothing ==
    \A f0 \in TransferFrames :
        After(f0).f.err # "ok" => After(f0).bank = BankVal

\* C8: the sum of all balances equals the total of the successful
\* inc_acc_balance values minus the total of the successful decr_acc_balance
\* values, after any sequence of successful and failed calls.
C8_SumIsAddedMinusWithdrawn ==
    SumBalances(acc_storage) = added - withdrawn

\* C9: create_account on a name that is present (the reserved fee account
\* name included) fails with AccountAlreadyExists and changes nothing: no
\* Registration record is appended.
C9_CreateExistingChangesNothing ==
    \A f0 \in CreateFrames :
        f0.a \in DOMAIN Accounts =>
            /\ After(f0).f.err = "AccountAlreadyExists"
            /\ After(f0).bank = BankVal

\* C10: inc_acc_balance fails with EmptyTransaction when value = 0 and with
\* AccountNotExists when the name is absent, and in both cases appends
\* nothing to the log and changes no account.
C10_FailedIncrementChangesNothing ==
    \A f0 \in IncFrames :
        /\ f0.v = 0 =>
            After(f0).f.err = "EmptyTransaction" /\ After(f0).bank = BankVal
        /\ (f0.v # 0 /\ f0.a \notin DOMAIN Accounts) =>
            After(f0).f.err = "AccountNotExists" /\ After(f0).bank = BankVal

C12_ZeroValueIsEmptyTransaction ==
    \A A \in DOMAIN Accounts, B \in DOMAIN Accounts :
        LET i == After(Frame("inc_acc_balance", A, "", 0))
            d == After(Frame("decr_acc_balance", A, "", 0))
            t == After(Frame("make_transaction", A, B, 0))
        IN /\ i.f.err = "EmptyTransaction" /\ i.bank = BankVal
           /\ d.f.err = "EmptyTransaction" /\ d.bank = BankVal
           /\ t.f.err = "EmptyTransaction" /\ t.bank = BankVal

\* a fee is configured, one account holds nothing and another holds money:
\* the zero-value calls on and between them are refused
C12_Witness ==
    /\ tr_fee > 0
    /\ \E A \in DOMAIN Accounts, B \in DOMAIN Accounts :
        /\ A # B
        /\ Accounts[A].balance = 0
        /\ Accounts[B].balance > 0
        /\ After(Frame("make_transaction", A, B, 0)).f.err = "EmptyTransaction"
        /\ After(Frame("decr_acc_balance", A, "", 0)).f.err = "EmptyTransaction"
        /\ After(Frame("inc_acc_balance", B, "", 0)).f.err = "EmptyTransaction"

\* C13 as stated: for existing accounts from and to and value > 0,
\* make_transaction fails with NotEnoughMoney if and only if
\* value + fee > balance(from); a transfer with value + fee = balance(from)
\* succeeds and leaves from with balance 0.
C13_TransferRefusedIffOverBalance ==
    \A f0 \in TransferFrames :
        (f0.a \in DOMAIN Accounts /\ f0.b \in DOMAIN Accounts /\ f0.v > 0) =>
            LET r == After(f0)
            IN /\ r.f.err = "NotEnoughMoney"
                    <=> f0.v + tr_fee > Accounts[f0.a].balance
               /\ f0.v + tr_fee = Accounts[f0.a].balance =>
                    /\ r.f.err = "ok"
                    /\ r.bank.acc_storage.storage[f0.a].balance = 0

\* the sender of f0 gets nothing back from its own transfer: it is not the
\* receiver, and it is not the fee account while a fee is charged
SenderOnlyPays(f0) ==
    /\ f0.a # f0.b
    /\ ~(f0.a = acc_storage.fee_acc_name /\ tr_fee > 0)

\* C13, amended: the same, with balance 0 promised only to a sender that is
\* neither the receiver nor (with fee > 0) the fee account; a sender that is
\* the receiver ends with value more, one that is the fee account with fee
\* more.
C13_TransferRefusedIffOverBalanceAmended ==
    \A f0 \in TransferFrames :
        (f0.a \in DOMAIN Accounts /\ f0.b \in DOMAIN Accounts /\ f0.v > 0) =>
            LET r == After(f0)
            IN /\ r.f.err = "NotEnoughMoney"
                    <=> f0.v + tr_fee > Accounts[f0.a].balance
               /\ f0.v + tr_fee = Accounts[f0.a].balance =>
                    /\ r.f.err = "ok"
                    /\ r.bank.acc_storage.storage[f0.a].balance =
                            (IF f0.a = f0.b THEN f0.v ELSE 0)
                            + (IF f0.a = acc_storage.fee_acc_name
                               THEN tr_fee ELSE 0)
                    /\ SenderOnlyPays(f0) =>
                            r.bank.acc_storage.storage[f0.a].balance = 0

\* a fee is charged and a sender holds exactly value + fee for a transfer to
\* another account, which succeeds; the same sender can pay a larger value
\* but not that value plus the fee, and is refused
C13_Witness ==
    /\ tr_fee > 0
    /\ \E f0 \in TransferFrames, f1 \in TransferFrames :
        /\ f0.a \in DOMAIN Accounts /\ f0.b \in DOMAIN Accounts
        /\ SenderOnlyPays(f0)
        /\ f0.v > 0
        /\ f0.v + tr_fee = Accounts[f0.a].balance
        /\ After(f0).f.err = "ok"
        /\ f1.a = f0.a /\ f1.b = f0.b
        /\ f1.v <= Accounts[f1.a].balance
        /\ After(f1).f.err = "NotEnoughMoney"

\* a transfer between two different accounts, neither of them the fee account
PlainTransfer(f0) ==
    /\ f0.a # f0.b
    /\ f0.a # acc_storage.fee_acc_name
    /\ f0.b # acc_storage.fee_acc_name

\* C15: a successful make_transaction(from, to, value) with fee > 0 between
\* distinct accounts, neither of them the fee account, appends exactly two
\* records, in this order: Transfer{to, value, fee} of from, then Add(fee) of
\* the fee account; it lowers balance(from) by value + fee, raises balance(to)
\* by value and the fee account's balance by fee, appends the Transfer id to
\* the id lists of from and of to, and the Add id to the fee account's id
\* list only.
C15_TransferWithFeeAppendsTwo ==
    \A f0 \in TransferFrames :
        LET r == After(f0)
            n == Len(Log)
            L == r.bank.tr_storage.storage
            S == r.bank.acc_storage.storage
            fee == acc_storage.fee_acc_name
        IN (tr_fee > 0 /\ PlainTransfer(f0) /\ r.f.err = "ok") =>
            /\ Len(L) = n + 2
            /\ SubSeq(L, 1, n) = Log
            /\ L[n + 1].action = Transfer(f0.b, f0.v, tr_fee)
            /\ L[n + 1].account_name = f0.a
            /\ L[n + 2].action = Add(tr_fee)
            /\ L[n + 2].account_name = fee
            /\ L[n + 1].id # L[n + 2].id
            /\ DOMAIN S = DOMAIN Accounts
            /\ S[f0.a].balance = Accounts[f0.a].balance - (f0.v + tr_fee)
            /\ S[f0.b].balance = Accounts[f0.b].balance + f0.v
            /\ S[fee].balance = Accounts[fee].balance + tr_fee
            /\ S[f0.a].trs = Append(Accounts[f0.a].trs, L[n + 1].id)
            /\ S[f0.b].trs = Append(Accounts[f0.b].trs, L[n + 1].id)
            /\ S[fee].trs = Append(Accounts[fee].trs, L[n + 2].id)
            /\ \A m \in DOMAIN Accounts \ {f0.a, f0.b, fee} : S[m] = Accounts[m]

\* a fee is charged and a transfer between two user accounts succeeds from
\* here
C15_Witness ==
    /\ tr_fee > 0
    /\ \E f0 \in TransferFrames :
        /\ PlainTransfer(f0)
        /\ After(f0).f.err = "ok"
        /\ Len(After(f0).bank.tr_storage.storage) = Len(Log) + 2

\* C16: the id a successful make_transaction returns is the id of the
\* Transfer record, the first record the call appended, also when fee > 0 and
\* an Add(fee) record with a larger id was appended by the same call;
\* transaction_by_id of the returned id is the Transfer record.
C16_ReturnedIdIsTransferId ==
    \A f0 \in TransferFrames :
        LET r == After(f0)
            L == r.bank.tr_storage.storage
            g == Call(r.bank, Frame("transaction_by_id", "", "", r.f.id))
        IN r.f.err = "ok" =>
            /\ r.f.id = L[Len(Log) + 1].id
            /\ g.f.err = "ok"
            /\ Len(g.f.list) = 1
            /\ g.f.list[1].id = r.f.id
            /\ g.f.list[1].action = Transfer(f0.b, f0.v, tr_fee)
            /\ g.f.list[1].account_name = f0.a
            /\ tr_fee > 0 =>
                    /\ L[Len(L)].action = Add(tr_fee)
                    /\ L[Len(L)].id > r.f.id

\* a fee is charged and a transfer succeeds from here: the call appends an
\* Add record after the Transfer record and returns the smaller id
C16_Witness ==
    /\ tr_fee > 0
    /\ \E f0 \in TransferFrames :
        LET r == After(f0)
        IN /\ r.f.err = "ok"
           /\ r.f.id < r.bank.tr_storage.last_tr_id
           /\ r.f.id = Len(Log) + 1

\* C17: when the fee is 0, a successful make_transaction appends exactly one
\* record (the Transfer with fee 0), appends no Add(0) record, and leaves the
\* fee account's balance and id list unchanged.
C17_ZeroFeeTransferAppendsOne ==
    \A f0 \in TransferFrames :
        LET r == After(f0)
            n == Len(Log)
            L == r.bank.tr_storage.storage
        IN (tr_fee = 0 /\ r.f.err = "ok") =>
            /\ Len(L) = n + 1
            /\ SubSeq(L, 1, n) = Log
            /\ L[n + 1].action = Transfer(f0.b, f0.v, 0)
            /\ fee_account(r.bank.acc_storage) = fee_account(acc_storage)

\* C18: transaction_by_id(id) returns the record appended with that id for
\* every id in 1..n, and fails with TransactionNotExists, with no other error
\* kind and no crash, for every id not in the log, id = 0 and id = n + 1
\* included.
C18_TransactionByIdTotal ==
    \A build \in Builds, id \in 0..(Len(Log) + 1) :
        LET r == transaction_by_id_build(build, tr_storage, id)
        IN IF id \in 1..Len(Log)
           THEN r.err = "ok" /\ r.val = Log[id] /\ r.val.id = id
           ELSE r.err = "TransactionNotExists"

\* C19: in every ledger that accepts operations, built by
\* MemAccountStorage::new or produced by restore_bank_from_transactions, the
\* reserved fee account exists and fee_account() returns it; so a
\* make_transaction with fee > 0 between existing accounts with sufficient
\* funds succeeds on the rebuilt ledger as on the original.
C19_FeeAccountAlwaysExists ==
    LET r == restore_bank_from_transactions(transactions(tr_storage), tr_fee)
        R == r.acc_storage.storage
    IN /\ fee_account(acc_storage).err = "ok"
       /\ fee_account(acc_storage).val.name = FeeName
       /\ fee_account(r.acc_storage).err = "ok"
       /\ \A f0 \in TransferFrames :
            (/\ tr_fee > 0
             /\ f0.a \in DOMAIN R /\ f0.b \in DOMAIN R
             /\ f0.v > 0
             /\ f0.v + tr_fee <= R[f0.a].balance)
            => Call(r, f0).f.err = "ok"

\* the positions of the Registration records of account n in the log
Registrations(n) ==
    {i \in DOMAIN Log :
        Log[i].action = Registration /\ Log[i].account_name = n}

\* C20: in every reachable state, for every account in the account table
\* the log contains exactly one Registration record whose account_name is
\* that account, and it was appended by the call that created the account
\* (its id is the first of the account's id list).
C20_OneRegistrationPerAccount ==
    \A n \in DOMAIN Accounts :
        /\ Cardinality(Registrations(n)) = 1
        /\ \A i \in Registrations(n) :
            /\ Accounts[n].trs # <<>>
            /\ Accounts[n].trs[1] = Log[i].id

MutatingFrames ==
    CreateFrames \cup IncFrames \cup DecrFrames \cup TransferFrames

StrictlyIncreasing(q) == \A i \in DOMAIN q, j \in DOMAIN q : i < j => q[i] < q[j]

\* C21: every successful ledger operation appends exactly one new id to the
\* id list of each account it touches, so every account's id list is
\* strictly increasing and holds no id twice; a make_transaction whose sender
\* and receiver are the same account included.
C21_IdListsStrictlyIncreasing ==
    /\ \A n \in DOMAIN Accounts : StrictlyIncreasing(Accounts[n].trs)
    /\ \A f0 \in MutatingFrames :
        LET r == After(f0)
            S == r.bank.acc_storage.storage
        IN r.f.err = "ok" =>
            \A n \in DOMAIN Accounts :
                \/ S[n].trs = Accounts[n].trs
                \/ /\ Len(S[n].trs) = Len(Accounts[n].trs) + 1
                   /\ SubSeq(S[n].trs, 1, Len(Accounts[n].trs)) = Accounts[n].trs

\* the records of the log at the positions S, in log order: a sequence of
\* transactions with distinct ids
RECURSIVE LogAt(_)
LogAt(S) ==
    IF S = {} THEN <<>>
    ELSE LET m == CHOOSE i \in S : \A j \in S : i <= j
         IN <<Log[m]>> \o LogAt(S \ {m})

\* C25: restore_bank_from_transactions preserves transaction ids for any
\* input sequence of transactions with distinct ids: transaction_by_id(t.id)
\* on the rebuilt ledger returns t for every input t, every id in a rebuilt
\* account's id list resolves to the input transaction with that id, and the
\* next record appended to the rebuilt ledger gets an id larger than every
\* input id.
C25_RebuildPreservesIds ==
    \A S \in SUBSET DOMAIN Log :
        LET trs == LogAt(S)
            r == restore_bank_from_transactions(trs, tr_fee)
            R == r.acc_storage.storage
            next == create_transaction(r.tr_storage, "", Registration).val.id
        IN /\ \A k \in DOMAIN trs :
                transaction_by_id(r.tr_storage, trs[k].id)
                    = [err |-> "ok", val |-> trs[k]]
           /\ \A n \in DOMAIN R : \A j \in DOMAIN R[n].trs :
                /\ transaction_by_id(r.tr_storage, R[n].trs[j]).err = "ok"
                /\ \E k \in DOMAIN trs :
                    /\ trs[k].id = R[n].trs[j]
                    /\ transaction_by_id(r.tr_storage, R[n].trs[j]).val = trs[k]
           /\ \A k \in DOMAIN trs : next > trs[k].id

\* C26: the log is append-only: once a record has been appended,
\* transaction_by_id of its id returns the same id, account_name and action
\* in every later state, and no call, successful or failed, removes or
\* reorders a record.
C26_LogAppendOnly ==
    [][/\ Len(Log') >= Len(Log)
       /\ SubSeq(Log', 1, Len(Log)) = Log
       /\ \A i \in DOMAIN Log :
            transaction_by_id(tr_storage', Log[i].id)
                = [err |-> "ok", val |-> Log[i]]]_vars

\* the log holds the record of a transfer that failed after it was appended
\* (its receiver has no account) and a record appended after it, and both
\* are found under their ids
C26_Witness ==
    \E i \in DOMAIN Log, j \in DOMAIN Log :
        /\ i < j
        /\ Log[i].action.type = "Transfer"
        /\ Log[i].action.to \notin DOMAIN Accounts
        /\ transaction_by_id(tr_storage, Log[i].id).val = Log[i]
        /\ transaction_by_id(tr_storage, Log[j].id).val = Log[j]

\* account records a caller can hand to the account table
RawAccounts ==
    [name : Names, balance : Values, trs : {<<>>, <<1>>, <<2, 1>>}]

\* C27: update_account on a name that is not in the table fails with
\* AccountNotExists and does not create the account; on an existing name it
\* replaces the whole record (balance and id list), returns the stored
\* record, and a following get_account returns exactly what was put.
C27_UpdateReplacesWholeRecord ==
    \A raw \in RawAccounts :
        LET r == update_account(acc_storage, raw)
        IN IF raw.name \notin DOMAIN Accounts
           THEN /\ r.err = "AccountNotExists"
                /\ r.s = acc_storage
           ELSE /\ r.err = "ok"
                /\ r.val = raw
                /\ get_account(r.s, raw.name) = [err |-> "ok", val |-> raw]
                /\ DOMAIN r.s.storage = DOMAIN Accounts
                /\ \A n \in DOMAIN Accounts \ {raw.name} :
                        r.s.storage[n] = Accounts[n]
                /\ r.s.fee_acc_name = acc_storage.fee_acc_name

\* the table holds an account with money and transactions, whose record an
\* update would replace, and lacks another name, for which an update fails
C27_Witness ==
    /\ \E n \in DOMAIN Accounts :
        /\ Accounts[n].balance > 0
        /\ Len(Accounts[n].trs) >= 2
        /\ update_account(acc_storage, [name |-> n, balance |-> 0, trs |-> <<>>]).s
                .storage[n].trs = <<>>
    /\ \E n \in Names \ DOMAIN Accounts :
        update_account(acc_storage, [name |-> n, balance |-> 1, trs |-> <<1>>]).err
            = "AccountNotExists"

\* the total of the values of the records of one kind in a list
RECURSIVE SumOfKind(_, _)
SumOfKind(trs, kind) ==
    IF trs = <<>> THEN 0
    ELSE (IF Head(trs).action.type = kind THEN Head(trs).action.value ELSE 0)
         + SumOfKind(Tail(trs), kind)

\* a list of Registration, Add and Withdraw records in which no Withdraw
\* takes more than the records before it have added: the history of an
\* account, along which the fold stays within usize
PlainHistory(trs) ==
    /\ \A i \in DOMAIN trs :
        trs[i].action.type \in {"Registration", "Add", "Withdraw"}
    /\ \A i \in DOMAIN trs :
        SumOfKind(SubSeq(trs, 1, i), "Withdraw")
            <= SumOfKind(SubSeq(trs, 1, i), "Add")

\* C28: restoring one account from a list of its Registration, Add and
\* Withdraw records sets its stored balance to the sum of the Add amounts
\* minus the sum of the Withdraw amounts, Registration contributing nothing,
\* and its id list to the ids of the list in order; it overwrites the stored
\* record when the account exists, whatever balance was stored, and creates
\* the account when it does not; nothing else changes.
C28_RestoreAccountFolds ==
    \A S \in SUBSET DOMAIN Log, X \in Names :
        LET trs == LogAt(S)
            r == restore_account_from_transactions(BankVal, X, trs)
            acc == [name |-> X,
                    balance |-> SumOfKind(trs, "Add") - SumOfKind(trs, "Withdraw"),
                    trs |-> [i \in DOMAIN trs |-> trs[i].id]]
        IN PlainHistory(trs) =>
            /\ r.acc_storage.storage =
                    [n \in DOMAIN Accounts \cup {X} |->
                        IF n = X THEN acc ELSE Accounts[n]]
            /\ r.acc_storage.fee_acc_name = acc_storage.fee_acc_name
            /\ r.tr_storage = tr_storage
            /\ r.tr_fee = tr_fee

\* the log holds the registration, an increment and a withdrawal of an
\* account; restoring the account from the first two overwrites its stored
\* balance with a different one, and restoring a name without an account
\* from all three creates it
C28_Witness ==
    \E n \in DOMAIN Accounts, m \in Names \ DOMAIN Accounts :
        /\ Len(Log) = 3
        /\ Log[1].action = Registration /\ Log[1].account_name = n
        /\ Log[2].action.type = "Add" /\ Log[2].account_name = n
        /\ Log[3].action.type = "Withdraw" /\ Log[3].account_name = n
        /\ restore_account_from_transactions(BankVal, n, LogAt({1, 2}))
                .acc_storage.storage[n].balance # Accounts[n].balance
        /\ restore_account_from_transactions(BankVal, m, Log)
                .acc_storage.storage[m].balance = Accounts[n].balance

\* C29: a successful create_account(name) appends exactly one Registration
\* record for name, and the account it returns equals the account then
\* stored: balance 0 and an id list holding exactly the id of that
\* Registration; no other account changes.
C29_CreateAccountResult ==
    \A f0 \in CreateFrames :
        LET r == After(f0)
            n == Len(Log)
            L == r.bank.tr_storage.storage
            S == r.bank.acc_storage.storage
        IN r.f.err = "ok" =>
            /\ Len(L) = n + 1
            /\ SubSeq(L, 1, n) = Log
            /\ L[n + 1].action = Registration
            /\ L[n + 1].account_name = f0.a
            /\ DOMAIN S = DOMAIN Accounts \cup {f0.a}
            /\ S[f0.a] = r.f.out
            /\ r.f.out = [name |-> f0.a, balance |-> 0, trs |-> <<L[n + 1].id>>]
            /\ \A m \in DOMAIN Accounts : S[m] = Accounts[m]

\* an account with money exists and a create_account of another name
\* succeeds from here
C29_Witness ==
    /\ \E m \in DOMAIN Accounts : Accounts[m].balance > 0 /\ m # FeeName
    /\ \E f0 \in CreateFrames :
        /\ After(f0).f.err = "ok"
        /\ After(f0).f.out.trs = <<Len(Log) + 1>>

\* C30: a successful inc_acc_balance(name, v) or decr_acc_balance(name, v)
\* appends exactly one record (Add(v) or Withdraw(v), of name), changes the
\* balance of name by exactly +v or -v, and returns the id of the new
\* record, which is then the last element of the account's id list.
C30_IncDecrResult ==
    \A f0 \in IncFrames \cup DecrFrames :
        LET r == After(f0)
            n == Len(Log)
            L == r.bank.tr_storage.storage
            S == r.bank.acc_storage.storage
            inc == f0.op = "inc_acc_balance"
        IN r.f.err = "ok" =>
            /\ Len(L) = n + 1
            /\ SubSeq(L, 1, n) = Log
            /\ L[n + 1].action = (IF inc THEN Add(f0.v) ELSE Withdraw(f0.v))
            /\ L[n + 1].account_name = f0.a
            /\ L[n + 1].id = r.f.id
            /\ S[f0.a].balance =
                    Accounts[f0.a].balance + (IF inc THEN f0.v ELSE 0 - f0.v)
            /\ S[f0.a].trs = Append(Accounts[f0.a].trs, r.f.id)

\* an account holds money and transactions: an increment and a withdrawal
\* of it both succeed from here
C30_Witness ==
    \E n \in DOMAIN Accounts :
        /\ Accounts[n].balance > 0
        /\ Accounts[n].trs # <<>>
        /\ After(Frame("inc_acc_balance", n, "", MaxVal)).f.err = "ok"
        /\ After(Frame("decr_acc_balance", n, "", Accounts[n].balance)).f.err
                = "ok"

\* C31: the fee account is changed only by the fee credits of transfers: a
\* call changes its balance by the fee when it is a successful
\* make_transaction and by nothing otherwise (so the balance is the fee times
\* the number of successful transfers), and a create_account,
\* inc_acc_balance, decr_acc_balance or make_transaction that names "fee_acc"
\* as its account, sender or receiver leaves the fee account as it was.
C31_FeeAccountOnlyFeeCredits ==
    \A f0 \in MutatingFrames :
        LET r == After(f0)
            before == fee_account(acc_storage)
            after == fee_account(r.bank.acc_storage)
            credit == IF f0.op = "make_transaction" /\ r.f.err = "ok"
                      THEN tr_fee ELSE 0
        IN /\ after.err = "ok"
           /\ after.val.balance = before.val.balance + credit
           /\ (FeeName \in {f0.a, f0.b}) => after = before

\* what the records of a log say about the balance of one account, each
\* record counted once for every role the account has in it
RECURSIVE RoleSum(_, _)
RoleSum(trs, name) ==
    IF trs = <<>> THEN 0
    ELSE LET tr == Head(trs)
             a == tr.action
             own == IF tr.account_name # name THEN 0
                    ELSE CASE a.type = "Registration" -> 0
                         [] a.type = "Add" -> a.value
                         [] a.type = "Withdraw" -> 0 - a.value
                         [] a.type = "Transfer" -> 0 - (a.value + a.fee)
             got == IF a.type = "Transfer" /\ a.to = name THEN a.value ELSE 0
         IN own + got + RoleSum(Tail(trs), name)

\* C32: in the rebuild of the log, the balance of every account X is lowered
\* by value + fee for every Transfer recorded under X and raised by value for
\* every Transfer whose receiver is X, each Transfer folded once per role: a
\* transfer from X to X lowers the rebuilt balance by exactly its fee.
C32_RebuildFoldsTransferPerRole ==
    LET rebuilt == restore_bank_from_transactions(Log, tr_fee)
    IN \A X \in RestoreKeys(Log) :
        /\ X \in DOMAIN rebuilt.acc_storage.storage
        /\ rebuilt.acc_storage.storage[X].balance = RoleSum(Log, X)

\* C34: when several failure conditions of a call hold at once, the value is
\* checked before the accounts are looked up and the funds before the
\* receiver: inc_acc_balance, decr_acc_balance and make_transaction with
\* value 0 on an account that does not exist fail with EmptyTransaction, and
\* a make_transaction the sender cannot pay fails with NotEnoughMoney also
\* when its receiver does not exist.
C34_ErrorOrder ==
    \A f0 \in IncFrames \cup DecrFrames \cup TransferFrames :
        LET r == After(f0)
            transfer == f0.op = "make_transaction"
        IN /\ (f0.v = 0 /\ (f0.a \notin DOMAIN Accounts
                            \/ (transfer /\ f0.b \notin DOMAIN Accounts)))
                => r.f.err = "EmptyTransaction"
           /\ (/\ transfer
               /\ f0.v > 0
               /\ f0.a \in DOMAIN Accounts
               /\ f0.b \notin DOMAIN Accounts
               /\ f0.v + tr_fee > Accounts[f0.a].balance)
                => r.f.err = "NotEnoughMoney"

\* the record names the account, as its account_name or as the receiver of
\* its Transfer
NamesAccount(tr, X) ==
    \/ tr.account_name = X
    \/ tr.action.type = "Transfer" /\ tr.action.to = X

\* C35: an account's id list and the log agree in both directions: every id
\* in the list of account X is the id of a log record that names X as its
\* account_name or as its Transfer receiver, and every log record that names
\* an existing account X is in X's list.
C35_IdListsAgreeWithLog ==
    \A X \in DOMAIN Accounts :
        /\ \A k \in DOMAIN Accounts[X].trs :
            LET r == transaction_by_id(tr_storage, Accounts[X].trs[k])
            IN r.err = "ok" /\ NamesAccount(r.val, X)
        /\ \A i \in DOMAIN Log :
            NamesAccount(Log[i], X) =>
                \E k \in DOMAIN Accounts[X].trs : Accounts[X].trs[k] = Log[i].id

\* the calls that read the ledger
ReadFrames ==
    {Frame(op, n, "", 0) : op \in {"account_balance", "account_transactions"},
                           n \in Names}
    \cup {Frame("transactions", "", "", 0)}
    \cup {[Frame("transaction_by_id", "", "", 0) EXCEPT !.v = id] :
            id \in 1..(MaxLog + 1)}

\* the accounts a mutating call is about
About(f0) ==
    IF f0.op # "make_transaction" THEN {f0.a}
    ELSE {f0.a, f0.b}
         \cup (IF tr_fee > 0 THEN {acc_storage.fee_acc_name} ELSE {})

\* C36: a call changes only the accounts it is about: create_account,
\* inc_acc_balance and decr_acc_balance on name leave every other account as
\* it was, a make_transaction changes only from, to and (when the fee is
\* positive) the fee account, and account_balance, account_transactions,
\* transactions and transaction_by_id change neither the log nor any account.
C36_CallsChangeOnlyTheirAccounts ==
    /\ \A f0 \in MutatingFrames :
        LET S == After(f0).bank.acc_storage.storage
        IN /\ \A n \in DOMAIN Accounts \ About(f0) :
                n \in DOMAIN S /\ S[n] = Accounts[n]
           /\ DOMAIN S \ DOMAIN Accounts \subseteq About(f0)
    /\ \A f0 \in ReadFrames : After(f0).bank = BankVal

\* two user accounts exist and hold transactions, one of them holds money: an
\* increment of one, a free transfer between the two and a read that
\* succeeds all have an account they are not about
C36_Witness ==
    /\ tr_fee = 0
    /\ UserNames \subseteq DOMAIN Accounts
    /\ \A n \in UserNames : Accounts[n].trs # <<>>
    /\ After(Frame("inc_acc_balance", "b", "", 1)).f.err = "ok"
    /\ After(Frame("make_transaction", "a", "b", 1)).f.err = "ok"
    /\ After(Frame("account_transactions", "a", "", 0)).f.list # <<>>

\* ------------------------------------- the ledger, successful calls only
\* a client that issues only calls that succeed, and no make_transaction
\* from an account to itself
Succeeds(f0) == After(f0).f.err = "ok"

OkRoom == Len(tr_storage.storage) < MaxLog + 1

OkCreateAccount ==
    \E n \in Names :
        LET f0 == Frame("create_account", n, "", 0)
        IN OkRoom /\ Succeeds(f0) /\ Do(f0)

OkIncrementBalance ==
    \E n \in Names, v \in Values :
        LET f0 == Frame("inc_acc_balance", n, "", v)
        IN OkRoom /\ Succeeds(f0) /\ Do(f0)

OkDecrementBalance ==
    \E n \in Names, v \in Values :
        LET f0 == Frame("decr_acc_balance", n, "", v)
        IN OkRoom /\ Succeeds(f0) /\ Do(f0)

OkMakeTransaction ==
    \E n \in Names, m \in Names, v \in Values :
        LET f0 == Frame("make_transaction", n, m, v)
        IN OkRoom /\ n # m /\ Succeeds(f0) /\ Do(f0)

NextOk ==
    \/ OkCreateAccount
    \/ OkIncrementBalance
    \/ OkDecrementBalance
    \/ OkMakeTransaction

SpecOk == Init /\ [][NextOk]_vars

\* C33: for a ledger reached by successful calls only, none of them a
\* transfer from an account to itself, the rebuild of its log has the same
\* log (same ids, same order); every account of the rebuilt ledger is an
\* account of the ledger with the same balance and the same id list; and
\* every account of the ledger that has a transaction is in the rebuilt one.
C33_RebuildOfSuccessfulHistory ==
    LET R == restore_bank_from_transactions(transactions(tr_storage), tr_fee)
        S == R.acc_storage.storage
    IN /\ R.tr_storage.storage = Log
       /\ \A n \in DOMAIN S :
            /\ n \in DOMAIN Accounts
            /\ S[n].balance = Accounts[n].balance
            /\ S[n].trs = Accounts[n].trs
       /\ \A n \in DOMAIN Accounts : Accounts[n].trs # <<>> => n \in DOMAIN S

\* a transfer with a fee between two accounts is in the log: sender,
\* receiver and fee account are all rebuilt from it
C33_Witness ==
    /\ tr_fee > 0
    /\ \E i \in DOMAIN Log :
        /\ Log[i].action.type = "Transfer"
        /\ Log[i].account_name \in UserNames
        /\ Log[i].action.to \in UserNames
        /\ Accounts[Log[i].action.to].balance > 0
    /\ Accounts[FeeName].trs # <<>>

\* ------------------------------------------ the ledger, on a small word
\* usize scaled down to WordBits bits, so that its arithmetic can leave the
\* word: `+`, `+=` and `-=` on usize panic in a debug build ("attempt to add
\* with overflow") and wrap modulo 2^WordBits in a release build
WordMax == 2 ^ WordBits - 1
Word == 0..WordMax

\* usize addition
add_usize(build, x, y) ==
    IF x + y <= WordMax THEN [err |-> "ok", val |-> x + y]
    ELSE IF build = "debug" THEN [err |-> "panic", val |-> 0]
    ELSE [err |-> "ok", val |-> (x + y) % (WordMax + 1)]

\* Bank::make_transaction, bank.rs:191-196, with `value + self.tr_fee`
\* computed in usize
make_transaction_start_word(build, b, f) ==
    LET r == Bank_account(b, f.a)
        sum == add_usize(build, f.v, b.tr_fee)
    IN IF r.err # "ok" THEN [bank |-> b, f |-> Fail(f, r.err)]
       ELSE IF f.v = 0
            THEN [bank |-> b, f |-> Fail(f, "EmptyTransaction")]
       ELSE IF sum.err # "ok"
            THEN [bank |-> b, f |-> Fail(f, sum.err)]
       ELSE IF sum.val > r.val.balance
            THEN [bank |-> b, f |-> Fail(f, "NotEnoughMoney")]
       ELSE [bank |-> b, f |-> [f EXCEPT !.pc = "tr", !.acc = r.val]]

\* one step of a method with the balance it computes kept in usize: every
\* step computes at most one balance, that of its local account f.acc
StepWord(build, b, f) ==
    IF f.op = "make_transaction" /\ f.pc = "start"
    THEN make_transaction_start_word(build, b, f)
    ELSE LET r == Step(b, f)
         IN IF r.f.acc.balance \in Word THEN r
            ELSE IF build = "debug" THEN [bank |-> b, f |-> Fail(f, "panic")]
            ELSE [r EXCEPT !.f.acc.balance = @ % (WordMax + 1)]

RECURSIVE CallWord(_, _, _)
CallWord(build, b, f) ==
    IF f.pc = "done" THEN [bank |-> b, f |-> f]
    ELSE LET r == StepWord(build, b, f) IN CallWord(build, r.bank, r.f)

InitWord ==
    /\ acc_storage = MemAccountStorage_new
    /\ tr_storage = MemTransactionStorage_new
    /\ tr_fee \in Word
    /\ added = 0
    /\ withdrawn = 0
    /\ th = [t \in Threads |-> IdleThread]
    /\ lock = [writer |-> 0, readers |-> {}]
    /\ serial = Bank_new(MemAccountStorage_new, MemTransactionStorage_new, tr_fee)
    /\ script = NoScript
    /\ sock = NoSock

\* a call on the Bank, run from entry to return; a panic ends the program
DoWord(f0) ==
    \E build \in Builds :
        LET r == CallWord(build, BankVal, f0)
        IN /\ r.f.err # "panic"
           /\ acc_storage' = r.bank.acc_storage
           /\ tr_storage' = r.bank.tr_storage
           /\ tr_fee' = r.bank.tr_fee
           /\ UNCHANGED <<added, withdrawn, th, lock, serial, script, sock>>

WordCreateAccount ==
    \E n \in Names : Room /\ DoWord(Frame("create_account", n, "", 0))

WordIncrementBalance ==
    \E n \in Names, v \in Word : Room /\ DoWord(Frame("inc_acc_balance", n, "", v))

WordDecrementBalance ==
    \E n \in Names, v \in Word : Room /\ DoWord(Frame("decr_acc_balance", n, "", v))

WordMakeTransaction ==
    \E n \in Names, m \in Names, v \in Word :
        Room /\ DoWord(Frame("make_transaction", n, m, v))

NextWord ==
    \/ WordCreateAccount
    \/ WordIncrementBalance
    \/ WordDecrementBalance
    \/ WordMakeTransaction

SpecWord == InitWord /\ [][NextWord]_vars

\* C37: the sufficiency check of make_transaction is exact over the whole
\* word: in either build, a transfer of value > 0 from an existing account
\* whose balance is below the mathematical sum value + fee, also when that
\* sum is above 2^WordBits - 1, fails with NotEnoughMoney; it does not
\* succeed and does not panic.
C37_SufficiencyCheckExact ==
    \A build \in Builds, n \in DOMAIN Accounts, m \in Names, v \in Word :
        (v > 0 /\ v + tr_fee > Accounts[n].balance) =>
            CallWord(build, BankVal, Frame("make_transaction", n, m, v)).f.err
                = "NotEnoughMoney"

\* ------------------------------------------------- the ledger, behind the
\* handler: Handler::run spawns one thread per request, each runs handle_msg
MutatingOps == {"create_account", "inc_acc_balance", "decr_acc_balance",
                "make_transaction"}

\* LockMode with make_transaction run under a shared acquisition
LockMode_transfer_shared(op) ==
    IF op \in (MutatingOps \ {"make_transaction"}) \cup {"account_transactions"}
    THEN "write" ELSE "read"

\* LockMode with inc_acc_balance run under a shared acquisition
LockMode_incr_shared(op) ==
    IF op \in (MutatingOps \ {"inc_acc_balance"}) \cup {"account_transactions"}
    THEN "write" ELSE "read"

\* the acquisition each handle_* function makes of Handler.bank
LockMode(op) ==
    IF op \in MutatingOps \cup {"account_transactions"} THEN "write" ELSE "read"

\* the requests a client sends while the server runs
ConcNames == {"a", "b"}
Requests ==
    {Frame("create_account", n, "", 0) : n \in {"b", "c"}}
    \cup {Frame("inc_acc_balance", n, "", 1) : n \in ConcNames}
    \cup {Frame("decr_acc_balance", n, "", 1) : n \in ConcNames}
    \cup {Frame("make_transaction", n, m, 1) : n \in ConcNames, m \in ConcNames}
    \cup {Frame("account_balance", n, "", 0) : n \in ConcNames}
    \cup {Frame("account_transactions", n, "", 0) : n \in ConcNames}
    \cup {Frame("transactions", "", "", 0)}
    \cup {Frame("transaction_by_id", "", "", i) : i \in {1, MaxLog + 1}}

\* the ledger the concurrent requests arrive at: the three requests below
\* have been served, account a holds 2 and account b holds 0
Setup(fee) ==
    LET b0 == Bank_new(MemAccountStorage_new, MemTransactionStorage_new, fee)
        b1 == Call(b0, Frame("create_account", "a", "", 0)).bank
        b2 == Call(b1, Frame("create_account", "b", "", 0)).bank
        b3 == Call(b2, Frame("inc_acc_balance", "a", "", 2)).bank
    IN b3

InitConc ==
    /\ tr_fee \in 0..MaxFee
    /\ acc_storage = Setup(tr_fee).acc_storage
    /\ tr_storage = Setup(tr_fee).tr_storage
    /\ added = 2
    /\ withdrawn = 0
    /\ th = [t \in Threads |-> IdleThread]
    /\ lock = [writer |-> 0, readers |-> {}]
    /\ serial = Setup(tr_fee)
    /\ script = NoScript
    /\ sock = NoSock

\* Handler::run: a request is received and a thread is spawned for it
Spawn(t) ==
    /\ th[t].hpc = "idle"
    /\ \E r \in Requests : th' = [th EXCEPT ![t] = [hpc |-> "lock", f |-> r, sf |-> r]]
    /\ UNCHANGED <<acc_storage, tr_storage, tr_fee, added, withdrawn, lock, serial,
                   script, sock>>

\* bank.write() / bank.read() of handle_*: blocks until the lock is granted
Acquire(t) ==
    /\ th[t].hpc = "lock"
    /\ \/ /\ LockMode(th[t].f.op) = "write"
          /\ lock.writer = 0 /\ lock.readers = {}
          /\ lock' = [lock EXCEPT !.writer = t]
       \/ /\ LockMode(th[t].f.op) = "read"
          /\ lock.writer = 0
          /\ lock' = [lock EXCEPT !.readers = @ \cup {t}]
    /\ LET r == Call(serial, th[t].f)
       IN /\ serial' = r.bank
          /\ th' = [th EXCEPT ![t].hpc = "run", ![t].sf = r.f]
    /\ UNCHANGED <<acc_storage, tr_storage, tr_fee, added, withdrawn, script,
                   sock>>

\* the Bank method the guard was taken for, one storage call at a time
BankStep(t) ==
    /\ th[t].hpc = "run"
    /\ th[t].f.pc # "done"
    /\ LET r == Step(BankVal, th[t].f)
       IN /\ acc_storage' = r.bank.acc_storage
          /\ tr_storage' = r.bank.tr_storage
          /\ tr_fee' = r.bank.tr_fee
          /\ th' = [th EXCEPT ![t].f = r.f]
    /\ UNCHANGED <<added, withdrawn, lock, serial, script, sock>>

\* Release with the guard kept alive until after the response is written
Release_after_response(t) ==
    /\ th[t].hpc = "run"
    /\ th[t].f.pc = "done"
    /\ th' = [th EXCEPT ![t].hpc = "respond"]
    /\ UNCHANGED <<acc_storage, tr_storage, tr_fee, added, withdrawn, lock, serial,
                   script, sock>>

\* the guard is a temporary of the call expression: dropped when it returns
Release(t) ==
    /\ th[t].hpc = "run"
    /\ th[t].f.pc = "done"
    /\ lock' = [writer |-> IF lock.writer = t THEN 0 ELSE lock.writer,
                readers |-> lock.readers \ {t}]
    /\ th' = [th EXCEPT ![t].hpc = "respond"]
    /\ UNCHANGED <<acc_storage, tr_storage, tr_fee, added, withdrawn, serial,
                   script, sock>>

\* handle_msg writes the response to the stream
Respond(t) ==
    /\ th[t].hpc = "respond"
    /\ th' = [th EXCEPT ![t].hpc = "finished"]
    /\ UNCHANGED <<acc_storage, tr_storage, tr_fee, added, withdrawn, lock, serial,
                   script, sock>>

NextConc ==
    \E t \in Threads :
        \/ Spawn(t)
        \/ Acquire(t)
        \/ BankStep(t)
        \/ Release(t)
        \/ Respond(t)

SpecConc == InitConc /\ [][NextConc]_vars

\* ------------------------------------- properties of the concurrent handler
ReadOps == {"account_balance", "account_transactions", "transactions",
            "transaction_by_id"}

\* thread t has appended its Transfer record and has storage writes of the
\* transfer still to make
MidTransfer(t) ==
    /\ th[t].hpc = "run"
    /\ th[t].f.op = "make_transaction"
    /\ th[t].f.pc \in {"upd_from", "get_to", "upd_to", "fee_get", "fee_tr",
                       "fee_upd"}

\* C6: while requests run concurrently, no account_balance,
\* account_transactions, transactions or transaction_by_id request is inside
\* the ledger while a make_transaction is between its first and its last
\* write: the transfer holds the lock exclusively for all of its steps.
C6_NoReadInsideTransfer ==
    \A t \in Threads :
        MidTransfer(t) =>
            /\ lock.writer = t
            /\ lock.readers = {}
            /\ \A r \in Threads \ {t} : th[r].hpc # "run"

\* a transfer has debited its sender and not yet credited its receiver, and
\* a read request is waiting for the lock
C6_Witness ==
    \E t \in Threads, r \in Threads :
        /\ MidTransfer(t)
        /\ th[t].f.pc = "get_to"
        /\ th[r].hpc = "lock"
        /\ th[r].f.op \in ReadOps

\* C22: account_balance, account_transactions, transactions and
\* transaction_by_id take only shared access to the ledger: the thread of a
\* read request that is inside the ledger is among the readers of the lock
\* and is never its writer, so it excludes no other reader.
C22_ReadsTakeSharedAccess ==
    \A t \in Threads :
        (th[t].hpc = "run" /\ th[t].f.op \in ReadOps) =>
            /\ t \in lock.readers
            /\ lock.writer # t

\* C23: no handler thread holds the ledger lock while it reads from or
\* writes to a client socket: a thread is the writer or among the readers
\* only while it is inside the Bank method, the lock is free again before the
\* response is written, and so a response that is never written keeps no
\* other request from the ledger.
C23_NoLockAcrossSocketIO ==
    /\ \A t \in Threads :
        th[t].hpc # "run" => lock.writer # t /\ t \notin lock.readers
    /\ lock.writer \in Threads \cup {0}
    /\ lock.readers \subseteq Threads
    /\ (\A t \in Threads : th[t].hpc # "run") =>
            lock = [writer |-> 0, readers |-> {}]

\* one thread has left the ledger and not yet written its response while
\* another thread is inside a mutating call, holding the lock exclusively
C23_Witness ==
    \E t \in Threads, u \in Threads :
        /\ th[t].hpc = "respond"
        /\ th[t].f.op \in MutatingOps
        /\ th[u].hpc = "run"
        /\ th[u].f.op \in MutatingOps
        /\ lock.writer = u

\* the transaction id a successful mutating call returned
ReturnedId(f) == IF f.op = "create_account" THEN f.out.trs[1] ELSE f.id

Returned(t) == th[t].hpc \in {"respond", "finished"}

\* C7: the mutating calls run under exclusive acquisition, so the ledger the
\* concurrent requests leave and every result they return are those of the
\* same calls run one after the other (in the order the lock was granted),
\* and two mutating requests never return the same transaction id.
C7_Serializable ==
    /\ (\A t \in Threads : th[t].hpc # "run") => BankVal = serial
    /\ \A t \in Threads : Returned(t) => th[t].f = th[t].sf
    /\ \A t \in Threads, u \in Threads :
        (/\ t # u
         /\ Returned(t) /\ Returned(u)
         /\ th[t].f.op \in MutatingOps /\ th[u].f.op \in MutatingOps
         /\ th[t].f.err = "ok" /\ th[u].f.err = "ok")
        => ReturnedId(th[t].f) # ReturnedId(th[u].f)

\* two requests that were in flight together have both returned: a transfer
\* and an increment of the same account, both successful
C7_Witness ==
    \E t \in Threads, u \in Threads :
        /\ Returned(t) /\ Returned(u)
        /\ th[t].f.op = "make_transaction" /\ th[t].f.err = "ok"
        /\ th[u].f.op = "inc_acc_balance" /\ th[u].f.err = "ok"
        /\ th[u].f.a = th[t].f.a

\* ------------------------------------- the handler, one client connection
\* Server::handle_connection reads the requests of its connection line by
\* line and sends each to the channel; the loop of Handler::run receives them
\* in that order and spawns a thread for each.  Thread t serves the t-th
\* request the client sent.
SpawnInOrder(t) ==
    /\ \A u \in Threads : u < t => th[u].hpc # "idle"
    /\ Spawn(t)

NextConn ==
    \E t \in Threads :
        \/ SpawnInOrder(t)
        \/ Acquire(t)
        \/ BankStep(t)
        \/ Release(t)
        \/ Respond(t)

SpecConn == InitConc /\ [][NextConn]_vars

\* the request of thread t has been granted the lock
Applied(t) == th[t].hpc \in {"run", "respond", "finished"}

\* C38: of two requests sent one after the other on one connection, the
\* later one is applied to the ledger only after the earlier one, and its
\* response is written only after the response of the earlier one.
C38_ConnectionOrder ==
    \A t \in Threads, u \in Threads :
        t < u =>
            /\ Applied(u) => Applied(t)
            /\ th[u].hpc = "finished" => th[t].hpc = "finished"

\* ------------------------------------- the handler, under fair scheduling
\* the requests a client sends: writes, reads, and TransactionById for the
\* ids 0 and 1
LiveRequests ==
    {Frame("inc_acc_balance", "a", "", 1),
     Frame("make_transaction", "a", "b", 1),
     Frame("account_balance", "b", "", 0),
     Frame("account_transactions", "a", "", 0)}
    \cup {Frame("transaction_by_id", "", "", i) : i \in {0, 1}}

\* Handler::run: a request is received and a thread is spawned for it
SpawnLive(t) ==
    /\ th[t].hpc = "idle"
    /\ \E r \in LiveRequests :
        th' = [th EXCEPT ![t] = [hpc |-> "lock", f |-> r, sf |-> r]]
    /\ UNCHANGED <<acc_storage, tr_storage, tr_fee, added, withdrawn, lock, serial,
                   script, sock>>

\* bank.write() / bank.read() of handle_*: blocks until the lock is granted
\* (Acquire without its history of the calls run alone)
AcquireLive(t) ==
    /\ th[t].hpc = "lock"
    /\ \/ /\ LockMode(th[t].f.op) = "write"
          /\ lock.writer = 0 /\ lock.readers = {}
          /\ lock' = [lock EXCEPT !.writer = t]
       \/ /\ LockMode(th[t].f.op) = "read"
          /\ lock.writer = 0
          /\ lock' = [lock EXCEPT !.readers = @ \cup {t}]
    /\ th' = [th EXCEPT ![t].hpc = "run"]
    /\ UNCHANGED <<acc_storage, tr_storage, tr_fee, added, withdrawn, serial,
                   script, sock>>

\* the Bank method panics inside handle_*: the thread of the request unwinds
\* and ends, handle_msg writes nothing.  Unwinding drops the guard; the
\* method that panics here runs under bank.read(), which does not poison
\* the RwLock.
Panic(t) ==
    /\ th[t].hpc = "run"
    /\ th[t].f.pc # "done"
    /\ th[t].f.op = "transaction_by_id"
    /\ \E build \in Builds :
        transaction_by_id_build(build, tr_storage, th[t].f.v).err = "panic"
    /\ lock' = [writer |-> IF lock.writer = t THEN 0 ELSE lock.writer,
                readers |-> lock.readers \ {t}]
    /\ th' = [th EXCEPT ![t].hpc = "panicked"]
    /\ UNCHANGED <<acc_storage, tr_storage, tr_fee, added, withdrawn, serial,
                   script, sock>>

\* handle_msg finds the client gone: to_writer fails and is ignored,
\* write_all fails and handle_msg returns its error
Disconnected(t) ==
    /\ th[t].hpc = "respond"
    /\ th' = [th EXCEPT ![t].hpc = "dropped"]
    /\ UNCHANGED <<acc_storage, tr_storage, tr_fee, added, withdrawn, lock, serial,
                   script, sock>>

NextLive ==
    \E t \in Threads :
        \/ SpawnLive(t)
        \/ AcquireLive(t)
        \/ BankStep(t)
        \/ Panic(t)
        \/ Release(t)
        \/ Respond(t)
        \/ Disconnected(t)

\* every thread that can take a step is scheduled, and a lock that stays
\* free is granted to a thread waiting for it
ThreadStep(t) ==
    \/ AcquireLive(t)
    \/ BankStep(t)
    \/ Panic(t)
    \/ Release(t)
    \/ Respond(t)
    \/ Disconnected(t)

FairLive == \A t \in Threads : WF_vars(ThreadStep(t))

SpecLive == InitConc /\ [][NextLive]_vars /\ FairLive

\* C39: under fair scheduling every request forwarded to the handler is
\* eventually answered (its response is written, or its client is found
\* gone), none waits for the lock forever, and the request of a client that
\* is gone has been applied in full and holds no lock.
C39_EveryRequestAnswered ==
    /\ \A t \in Threads :
        th[t].hpc = "lock" ~> th[t].hpc \in {"finished", "dropped"}
    /\ [](\A t \in Threads :
            th[t].hpc = "dropped" =>
                /\ th[t].f.pc = "done"
                /\ lock.writer # t /\ t \notin lock.readers)

\* ------------------------------------------------ the handler, one request
\* at a time: handle_msg from the request to the response written
MsgIds == {1, 2}

\* Display of bank::Error (the #[error] attributes), which
\* From<E: ToString> for ResponseErrorPayload puts into the payload
Error_to_string(e) ==
    CASE e = "AccountAlreadyExists" -> "account already exists"
    [] e = "AccountNotExists" -> "account not exists"
    [] e = "EmptyTransaction" -> "empty transaction"
    [] e = "NotEnoughMoney" -> "not enough money"
    [] e = "TransactionNotExists" -> "transaction not exists"

\* the requests a connection can carry: `valid` tells whether the payload
\* deserializes into the payload type of the method
MsgRequests == [id : MsgIds, valid : BOOLEAN, f : Requests]

\* serde_json::from_value of handle_* / handler_* fails; handler_transactions
\* never looks at the payload
ParseFails(req) == ~req.valid /\ req.f.op # "transactions"

\* handle_msg answering with the id of a default response
handle_msg_default_id(b, req) ==
    LET r == Call(b, req.f)
    IN IF ParseFails(req)
       THEN [bank |-> b,
             resp |-> [id |-> 0, code |-> "ERR", error |-> "InvalidFormat"]]
       ELSE IF r.f.err = "ok"
            THEN [bank |-> r.bank,
                  resp |-> [id |-> 0, code |-> "OK", error |-> ""]]
            ELSE [bank |-> r.bank,
                  resp |-> [id |-> 0, code |-> "ERR",
                            error |-> Error_to_string(r.f.err)]]

\* Handler::handle_msg with the handle_* / handler_* function it dispatches to
handle_msg(b, req) ==
    LET r == Call(b, req.f)
    IN IF ParseFails(req)
       THEN [bank |-> b,
             resp |-> [id |-> req.id, code |-> "ERR", error |-> "InvalidFormat"]]
       ELSE IF r.f.err = "ok"
            THEN [bank |-> r.bank,
                  resp |-> [id |-> req.id, code |-> "OK", error |-> ""]]
            ELSE [bank |-> r.bank,
                  resp |-> [id |-> req.id, code |-> "ERR",
                            error |-> Error_to_string(r.f.err)]]

InitHandler ==
    /\ tr_fee \in 0..MaxFee
    /\ acc_storage = Setup(tr_fee).acc_storage
    /\ tr_storage = Setup(tr_fee).tr_storage
    /\ added = 2
    /\ withdrawn = 0
    /\ th = [t \in Threads |-> IdleThread]
    /\ lock = [writer |-> 0, readers |-> {}]
    /\ serial = Setup(tr_fee)
    /\ script = NoScript
    /\ sock = NoSock

\* the log may grow by this many records while requests are served
HandlerRoom == Len(tr_storage.storage) < MaxLog + 2

\* a request is taken from the connection, handled, and answered
HandleMsg(req) ==
    /\ HandlerRoom
    /\ LET h == handle_msg(BankVal, req)
       IN /\ acc_storage' = h.bank.acc_storage
          /\ tr_storage' = h.bank.tr_storage
          /\ tr_fee' = h.bank.tr_fee
          /\ sock' = [req |-> req, resp |-> h.resp]
          /\ added' = IF req.f.op = "inc_acc_balance" /\ h.resp.code = "OK"
                      THEN added + req.f.v ELSE added
          /\ withdrawn' = IF req.f.op = "decr_acc_balance" /\ h.resp.code = "OK"
                          THEN withdrawn + req.f.v ELSE withdrawn
    /\ UNCHANGED <<th, lock, serial, script>>

NextHandler == \E req \in MsgRequests : HandleMsg(req)

SpecHandler == InitHandler /\ [][NextHandler]_vars

\* C24: every response the handler writes carries the id of the request it
\* answers; its code is OK when the ledger call succeeded, and ERR with an
\* error message when the ledger call returned an error or the payload could
\* not be parsed (InvalidFormat; the ledger is then not touched).
C24_ResponseMatchesRequest ==
    [][sock' # sock =>
        LET req == sock'.req
            resp == sock'.resp
            r == Call(BankVal, req.f)
        IN /\ resp.id = req.id
           /\ ParseFails(req) =>
                /\ resp.code = "ERR" /\ resp.error = "InvalidFormat"
                /\ BankVal' = BankVal
           /\ (~ParseFails(req) /\ r.f.err = "ok") =>
                /\ resp.code = "OK"
                /\ BankVal' = r.bank
           /\ (~ParseFails(req) /\ r.f.err # "ok") =>
                /\ resp.code = "ERR"
                /\ resp.error \notin {"", "InvalidFormat"}
                /\ resp.error = Error_to_string(r.f.err)]_vars

\* request 2, a well-formed transfer, was refused by the ledger and answered
\* with an error message
C24_Witness ==
    /\ sock.req.id = 2
    /\ sock.req.valid
    /\ sock.req.f.op = "make_transaction"
    /\ sock.resp = [id |-> 2, code |-> "ERR", error |-> "not enough money"]

\* ------------------------------------------------ the ledger, one scripted
\* client: create A, create B, increment A, transfer A -> B, then read A's
\* balance and A's transactions; a program like bank_core/src/main.rs, which
\* owns its Bank and calls it in sequence
ScenarioNames == {"A", "B", "C"}
ScenarioIncs == {20, 50, 100}
ScenarioVals == {1, 10}

InitScenario ==
    /\ acc_storage = MemAccountStorage_new
    /\ tr_storage = MemTransactionStorage_new
    /\ tr_fee \in 1..MaxFee
    /\ added = 0
    /\ withdrawn = 0
    /\ th = [t \in Threads |-> IdleThread]
    /\ lock = [writer |-> 0, readers |-> {}]
    /\ serial = Bank_new(MemAccountStorage_new, MemTransactionStorage_new, tr_fee)
    /\ sock = NoSock
    /\ \E A \in ScenarioNames, B \in ScenarioNames,
          i \in ScenarioIncs, v \in ScenarioVals :
            /\ A # B
            /\ script = [NoScript EXCEPT !.A = A, !.B = B, !.inc = i, !.val = v]

\* the call of step k, run from entry to return; its result is r.f
ScriptCall(k, f0, r) ==
    /\ script.step = k
    /\ r = Call(BankVal, f0)
    /\ acc_storage' = r.bank.acc_storage
    /\ tr_storage' = r.bank.tr_storage
    /\ tr_fee' = r.bank.tr_fee
    /\ added' = IF f0.op = "inc_acc_balance" /\ r.f.err = "ok"
                THEN added + f0.v ELSE added
    /\ UNCHANGED <<withdrawn, th, lock, serial, sock>>

ScriptCreateA ==
    \E r \in {After(Frame("create_account", script.A, "", 0))} :
        /\ ScriptCall(0, Frame("create_account", script.A, "", 0), r)
        /\ script' = [script EXCEPT !.step = 1,
                                    !.ids = Append(@, r.f.out.trs[1])]

ScriptCreateB ==
    \E r \in {After(Frame("create_account", script.B, "", 0))} :
        /\ ScriptCall(1, Frame("create_account", script.B, "", 0), r)
        /\ script' = [script EXCEPT !.step = 2,
                                    !.ids = Append(@, r.f.out.trs[1])]

ScriptIncrement ==
    \E r \in {After(Frame("inc_acc_balance", script.A, "", script.inc))} :
        /\ ScriptCall(2, Frame("inc_acc_balance", script.A, "", script.inc), r)
        /\ script' = [script EXCEPT !.step = 3, !.ids = Append(@, r.f.id)]

ScriptTransfer ==
    \E r \in {After(Frame("make_transaction", script.A, script.B, script.val))} :
        /\ ScriptCall(3, Frame("make_transaction", script.A, script.B,
                               script.val), r)
        /\ script' = [script EXCEPT !.step = 4, !.ids = Append(@, r.f.id)]

ScriptBalance ==
    \E r \in {After(Frame("account_balance", script.A, "", 0))} :
        /\ ScriptCall(4, Frame("account_balance", script.A, "", 0), r)
        /\ script' = [script EXCEPT !.step = 5, !.balance = r.f.id]

ScriptTransactions ==
    \E r \in {After(Frame("account_transactions", script.A, "", 0))} :
        /\ ScriptCall(5, Frame("account_transactions", script.A, "", 0), r)
        /\ script' = [script EXCEPT !.step = 6,
                                    !.trs = [k \in DOMAIN r.f.list |->
                                                r.f.list[k].id]]

NextScenario ==
    \/ ScriptCreateA
    \/ ScriptCreateB
    \/ ScriptIncrement
    \/ ScriptTransfer
    \/ ScriptBalance
    \/ ScriptTransactions

SpecScenario == InitScenario /\ [][NextScenario]_vars

\* C14: on a fresh ledger with a fee, create_account(A), create_account(B),
\* inc_acc_balance(A, x), make_transaction(A, B, v) return the ids 1, 2, 3, 4;
\* record 4 is Transfer{to: B, value: v, fee} of A and record 5 is Add(fee) of
\* the fee account; balance(A) = x - v - fee, balance(B) = v, the fee account
\* holds fee, and account_transactions(A) is the records 1, 3, 4 in that
\* order.  The fee account exists before the first call and no id was used
\* for it.  (x = 100, v = 10, fee = 1: 89, 10 and 1.)
C14_ScenarioIdsAndBalances ==
    /\ script.step = 0 =>
            /\ fee_account(acc_storage).err = "ok"
            /\ Log = <<>>
            /\ tr_storage.last_tr_id = 0
    /\ script.step = 6 =>
            /\ script.ids = <<1, 2, 3, 4>>
            /\ Len(Log) = 5
            /\ Log[4] = [id |-> 4, account_name |-> script.A,
                         action |-> Transfer(script.B, script.val, tr_fee)]
            /\ Log[5] = [id |-> 5, account_name |-> FeeName,
                         action |-> Add(tr_fee)]
            /\ Accounts[script.A].balance = script.inc - script.val - tr_fee
            /\ Accounts[script.B].balance = script.val
            /\ Accounts[FeeName].balance = tr_fee
            /\ script.balance = script.inc - script.val - tr_fee
            /\ script.trs = <<1, 3, 4>>

\* the sequence with A, B, 100, 10 and fee 1 has run to its end: A holds 89,
\* B holds 10, the fee account holds 1
C14_Witness ==
    /\ script.step = 6
    /\ script.A = "A" /\ script.B = "B"
    /\ script.inc = 100 /\ script.val = 10 /\ tr_fee = 1
    /\ script.balance = 89
    /\ Accounts["A"].balance = 89
    /\ Accounts["B"].balance = 10
    /\ Accounts[FeeName].balance = 1
    /\ script.ids = <<1, 2, 3, 4>>
    /\ script.trs = <<1, 3, 4>>
    /\ Log[5].action = Add(1)

====
